---- MODULE Spec2Model ----
(***************************************************************************)
(* vcf2tsv: convert_vcf_to_tsv of src/vcf2tsv/cli.py as a state machine.   *)
(*                                                                         *)
(* Text is modelled as a sequence of characters.  Every character the      *)
(* program inspects (tab, newline, comma, pipe, colon, '#', ' ', '[', ']', *)
(* digits, '-', '>') is one element; a run of letters that no operation    *)
(* looks into (a field name such as "CHROM") is kept as one element.       *)
(***************************************************************************)
EXTENDS Integers, Sequences, FiniteSets, TLC

\* ---------------------------------------------------------------- bounds
MaxSamples == 2
MaxVariants == 2
MaxFormat == 3
MaxHeaderLines == 3
PipeCapacity == 2

\* ------------------------------------------------------- python built-ins
None == -1

\* clamp of a slice index of a list of length len (negative counts from the end)
PyIdx(i, len) ==
    IF i < 0 THEN (IF i + len < 0 THEN 0 ELSE i + len)
    ELSE IF i > len THEN len ELSE i

\* s[lo:hi]
Slice(s, lo, hi) == SubSeq(s, PyIdx(lo, Len(s)) + 1, PyIdx(hi, Len(s)))

\* s[lo:]
SliceFrom(s, lo) == SubSeq(s, PyIdx(lo, Len(s)) + 1, Len(s))

\* s[:hi]
SliceTo(s, hi) == SubSeq(s, 1, PyIdx(hi, Len(s)))

\* the indices of s that hold c, in increasing order
Positions(s, c) == SelectSeq([i \in 1..Len(s) |-> i], LAMBDA i : s[i] = c)

\* str.split(sep), sep one character: "" splits into [""]
Split(s, sep) ==
    LET P == Positions(s, sep)
        np == Len(P)
    IN  [k \in 1..(np + 1) |->
            SubSeq(s, (IF k = 1 THEN 0 ELSE P[k - 1]) + 1,
                      (IF k = np + 1 THEN Len(s) + 1 ELSE P[k]) - 1)]

\* the concatenation of a sequence of sequences
RECURSIVE Concat(_)
Concat(ss) ==
    IF ss = <<>> THEN <<>>
    ELSE IF Len(ss) = 1 THEN ss[1]
    ELSE LET h == Len(ss) \div 2
         IN  Concat(SubSeq(ss, 1, h)) \o Concat(SubSeq(ss, h + 1, Len(ss)))

\* sep.join(parts), sep one element
Join(parts, sep) ==
    Concat([i \in 1..Len(parts) |-> IF i = 1 THEN parts[i] ELSE <<sep>> \o parts[i]])

RECURSIVE LStrip(_, _)
LStrip(s, cs) == IF s # <<>> /\ s[1] \in cs THEN LStrip(Tail(s), cs) ELSE s

RECURSIVE RStrip(_, _)
RStrip(s, cs) ==
    IF s # <<>> /\ s[Len(s)] \in cs THEN RStrip(SubSeq(s, 1, Len(s) - 1), cs) ELSE s

\* str.strip(chars)
Strip(s, cs) == RStrip(LStrip(s, cs), cs)

\* str.startswith(p)
StartsWith(s, p) == Len(s) >= Len(p) /\ SubSeq(s, 1, Len(p)) = p

\* s has p at index i
OccursAt(s, p, i) == i + Len(p) - 1 <= Len(s) /\ SubSeq(s, i, i + Len(p) - 1) = p

\* str.replace(p, ""): one pass, left to right, non-overlapping
RECURSIVE Remove(_, _)
Remove(s, p) ==
    IF \A i \in 1..Len(s) : ~OccursAt(s, p, i) THEN s
    ELSE LET k == CHOOSE i \in 1..Len(s) :
                     OccursAt(s, p, i) /\ \A j \in 1..(i - 1) : ~OccursAt(s, p, j)
         IN  SubSeq(s, 1, k - 1) \o Remove(SubSeq(s, k + Len(p), Len(s)), p)

\* str.replace(a, b) for single characters
ReplaceChar(s, a, b) == [i \in 1..Len(s) |-> IF s[i] = a THEN b ELSE s[i]]

\* p in s, p one character
Contains(s, c) == \E i \in 1..Len(s) : s[i] = c

DigitChars == <<"0", "1", "2", "3", "4", "5", "6", "7", "8", "9">>

IsDigit(c) == \E i \in 1..Len(DigitChars) : DigitChars[i] = c

\* length of the run of digits of s from index i on
RECURSIVE DigitRun(_, _)
DigitRun(s, i) == IF i <= Len(s) /\ IsDigit(s[i]) THEN 1 + DigitRun(s, i + 1) ELSE 0

\* a match of \[[0-9]+\] starts at index a of s
MarkerAt(s, a) ==
    /\ s[a] = "["
    /\ DigitRun(s, a + 1) >= 1
    /\ a + DigitRun(s, a + 1) + 1 <= Len(s)
    /\ s[a + DigitRun(s, a + 1) + 1] = "]"

\* re.sub(r"\[[0-9]+\]", "", s): matches cannot overlap, so an index is
\* deleted exactly when it lies in one
SubMarkers(s) ==
    LET starts == SelectSeq([i \in 1..Len(s) |-> i], LAMBDA a : MarkerAt(s, a))
        del(i) == \E m \in 1..Len(starts) :
                      starts[m] <= i /\ i <= starts[m] + DigitRun(s, starts[m] + 1) + 1
        kept == SelectSeq([i \in 1..Len(s) |-> i], LAMBDA i : ~del(i))
    IN  [i \in 1..Len(kept) |-> s[kept[i]]]

\* str(k) for k >= 0
RECURSIVE NumStr(_)
NumStr(k) ==
    IF k < 10 THEN <<DigitChars[k + 1]>>
    ELSE NumStr(k \div 10) \o <<DigitChars[(k % 10) + 1]>>

\* the lines of a byte stream, each with its line ending (iteration of a file)
Lines(s) ==
    LET P == Positions(s, "\n")
        np == Len(P)
        last == IF np = 0 THEN 0 ELSE P[np]
    IN  [k \in 1..np |-> SubSeq(s, (IF k = 1 THEN 0 ELSE P[k - 1]) + 1, P[k])]
        \o (IF last < Len(s) THEN <<SubSeq(s, last + 1, Len(s))>> ELSE <<>>)

\* ------------------------------------------------------------- constants
SENTINEL == <<"-", "-", ">">>

ANN_HEADER ==
    << <<"allele">>, <<"effect">>, <<"impact">>, <<"gene_name">>, <<"gene_id">>,
       <<"feature_type">>, <<"feature_id">>, <<"transcript_biotype">>,
       <<"exon_intron_rank">>, <<"nt_change">>, <<"aa_change">>,
       <<"cDNA_position/cDNA_len">>, <<"protein_position">>,
       <<"distance_to_feature">>, <<"error">> >>

\* ------------------------------------------------------ the header schema
\* The metadata header is text whose elements are the pieces the two
\* patterns tell apart: the literal prefixes, ",", the attribute keys, the
\* quote, ">", the newline, and opaque value chunks.
INFO_PREFIX == "##INFO=<ID="

FORMAT_PREFIX == "##FORMAT=<ID="

\* -?\d+ | \. | [AG]
InfoNumbers == {"1", "-1", ".", "A", "G"}

\* -?\d+ | \. | [AGR]
FormatNumbers == InfoNumbers \cup {"R"}

\* Integer|Float|Flag|Character|String
InfoTypes == {"Integer", "Float", "Flag", "Character", "String"}

\* ^ under re.MULTILINE
LineStart(h, p) == p = 1 \/ h[p - 1] = "\n"

\* the first index >= from of h that holds c, Len(h) + 1 when there is none
FirstAt(h, c, from) ==
    IF \E i \in from..Len(h) : h[i] = c
    THEN CHOOSE i \in from..Len(h) : h[i] = c /\ \A j \in from..(i - 1) : h[j] # c
    ELSE Len(h) + 1

\* the last index of the line of index q that holds ">", after q; 0 when none
LastClose(h, q) ==
    LET eol == FirstAt(h, "\n", q)
        S == {i \in (q + 1)..(eol - 1) : h[i] = ">"}
    IN  IF S = {} THEN 0 ELSE CHOOSE i \in S : \A j \in S : j <= i

NoMatch == [ok |-> FALSE, id |-> <<>>, end |-> 0]

\* RE_INFO tried at index p:
\*   ##INFO=<ID=([^,]+),Number=(..),Type=(..),Description="([^"]*)".*>
\* [^,] and [^"] match the newline, "." does not
InfoMatch(h, p) ==
    LET c == FirstAt(h, ",", p + 1)
        q == FirstAt(h, "\"", c + 9)
        e == LastClose(h, q)
    IN  IF /\ p <= Len(h) /\ h[p] = INFO_PREFIX
           /\ c > p + 1 /\ c + 8 <= Len(h)
           /\ h[c + 1] = "Number=" /\ h[c + 2] \in InfoNumbers
           /\ h[c + 3] = "," /\ h[c + 4] = "Type=" /\ h[c + 5] \in InfoTypes
           /\ h[c + 6] = "," /\ h[c + 7] = "Description=" /\ h[c + 8] = "\""
           /\ q <= Len(h) /\ e # 0
        THEN [ok |-> TRUE, id |-> SubSeq(h, p + 1, c - 1), end |-> e]
        ELSE NoMatch

\* RE_FORMAT tried at index p, every part within the line of p:
\*   ##FORMAT=<ID=(.+),Number=(..),Type=(.+),Description="(.*)".*>
\* the greedy id runs to the last "," after which the rest still matches
FormatMatch(h, p) ==
    LET eol == FirstAt(h, "\n", p)
        rest(c) ==
            /\ c + 4 < eol
            /\ h[c] = "," /\ h[c + 1] = "Number=" /\ h[c + 2] \in FormatNumbers
            /\ h[c + 3] = "," /\ h[c + 4] = "Type="
            /\ \E d \in (c + 6)..(eol - 1) :
                  /\ d + 2 < eol
                  /\ h[d] = "," /\ h[d + 1] = "Description=" /\ h[d + 2] = "\""
                  /\ \E q \in (d + 3)..(eol - 1) : h[q] = "\"" /\ LastClose(h, q) # 0
        C == {c \in (p + 2)..(eol - 1) : rest(c)}
        cmax == CHOOSE c \in C : \A x \in C : x <= c
    IN  IF p <= Len(h) /\ h[p] = FORMAT_PREFIX /\ C # {}
        THEN [ok |-> TRUE, id |-> SubSeq(h, p + 1, cmax - 1), end |-> LastClose(h, cmax)]
        ELSE NoMatch

\* [m.groupdict()["id"] for m in RE.finditer(h)]: the matches from index pos
\* on, left to right, the search resuming behind each match
Match(re, h, p) == IF re = "RE_INFO" THEN InfoMatch(h, p) ELSE FormatMatch(h, p)

RECURSIVE FindIds(_, _, _)
FindIds(re, h, pos) ==
    LET S == {p \in pos..Len(h) : LineStart(h, p) /\ Match(re, h, p).ok}
    IN  IF S = {} THEN <<>>
        ELSE LET p == CHOOSE x \in S : \A y \in S : x <= y
                 m == Match(re, h, p)
             IN  <<m.id>> \o FindIds(re, h, m.end + 1)

InfoIds(h) == FindIds("RE_INFO", h, 1)

FormatIds(h) == FindIds("RE_FORMAT", h, 1)

\* a declaration as header files carry it
InfoDecl(id) ==
    <<INFO_PREFIX>> \o id \o <<",", "Number=", ".", ",", "Type=", "String", ",",
                               "Description=", "\"", "d", "\"", ">", "\n">>

FormatDecl(id) ==
    <<FORMAT_PREFIX>> \o id \o <<",", "Number=", "1", ",", "Type=", "String", ",",
                                 "Description=", "\"", "d", "\"", ">", "\n">>

\* the header that declares the INFO fields info and the FORMAT fields ff
HeaderText(info, ff) ==
    <<"##fileformat=VCFv4.2", "\n">>
    \o Concat([i \in 1..Len(info) |-> InfoDecl(info[i])])
    \o Concat([i \in 1..Len(ff) |-> FormatDecl(ff[i])])

\* ------------------------------------------------ the extraction template
\* The query string is kept as its sequence of template tokens: a field
\* reference ("%" or "%INFO/" and a name), literal text, or a bracket of the
\* per-sample group.
LEAD_NAMES ==
    << <<"CHROM">>, <<"POS">>, <<"ID">>, <<"REF">>, <<"ALT">>, <<"QUAL">>, <<"FILTER">> >>

SAMPLE == <<"SAMPLE">>

ANN == <<"ANN">>

Fld(x) == [k |-> "%", v |-> x]

InfoFld(x) == [k |-> "%INFO/", v |-> x]

Lit(text) == [k |-> "lit", v |-> text]

TabTok == Lit(<<"\t">>)

NlTok == Lit(<<"\n">>)

OpenTok == [k |-> "[", v |-> <<>>]

CloseTok == [k |-> "]", v |-> <<>>]

\* "%CHROM\t%POS\t%ID\t%REF\t%ALT\t%QUAL\t%FILTER\t"
LeadTemplate == Concat([i \in 1..Len(LEAD_NAMES) |-> <<Fld(LEAD_NAMES[i]), TabTok>>])

QueryString(fmt, info, ff) ==
    IF fmt = "long"
    THEN LeadTemplate
         \o Join([i \in 1..Len(info) |-> <<Fld(info[i])>>], TabTok)
         \o <<TabTok, OpenTok, Lit(SENTINEL), Fld(SAMPLE), TabTok>>
         \o Join([i \in 1..Len(ff) |-> <<Fld(ff[i])>>], TabTok)
         \o <<NlTok, CloseTok>>
    ELSE LeadTemplate
         \o Join([i \in 1..Len(info) |-> <<InfoFld(info[i])>>], TabTok)
         \o <<OpenTok, TabTok, Fld(SAMPLE), TabTok>>
         \o Join([i \in 1..Len(ff) |-> <<Fld(ff[i])>>], TabTok)
         \o <<CloseTok, NlTok>>

\* cmd = list(filter(len, ["bcftools", "query", header_flag, "-f", query_string, filename]))
Command(hdr, fmt, info, ff, filename) ==
    [header |-> hdr, f |-> QueryString(fmt, info, ff), file |-> filename]

\* ------------------------------------------------- the extraction engine
\* bcftools query, the collaborator the command is handed to: every token of
\* the template yields one value per variant, the bracketed group once per
\* sample.
TplOpen(tpl) == CHOOSE i \in 1..Len(tpl) : tpl[i] = OpenTok

TplClose(tpl) == CHOOSE i \in 1..Len(tpl) : tpl[i] = CloseTok

TplPre(tpl) == SubSeq(tpl, 1, TplOpen(tpl) - 1)

TplGrp(tpl) == SubSeq(tpl, TplOpen(tpl) + 1, TplClose(tpl) - 1)

TplPost(tpl) == SubSeq(tpl, TplClose(tpl) + 1, Len(tpl))

SampleName(s) == <<"S">> \o NumStr(s)

\* an identifier made of the characters of the sentinel: "--->->"
DashId == <<"-", "-", "-", ">", "-", ">">>

LeadVal(name, v) ==
    IF name = <<"CHROM">> THEN <<"chr">>
    ELSE IF name = <<"POS">> THEN NumStr(v)
    ELSE IF name = <<"ID">> THEN (IF v = 2 THEN DashId ELSE <<"rs">> \o NumStr(v))
    ELSE IF name = <<"REF">> THEN <<"A">>
    ELSE IF name = <<"ALT">> THEN <<"T">>
    ELSE IF name = <<"QUAL">> THEN <<"9">>
    ELSE <<"PASS">>

IsLead(name) == \E i \in 1..Len(LEAD_NAMES) : LEAD_NAMES[i] = name

\* the text of an annotation: sub-records joined by ",", their fields by "|"
AnnText(a) == Join([j \in 1..Len(a) |-> Join(a[j], "|")], ",")

InfoVal(name, v, body) ==
    IF name = ANN THEN AnnText(body[v]) ELSE <<"i">> \o name \o NumStr(v)

FmtVal(name, v, s) == <<"f">> \o name \o NumStr(v) \o <<".">> \o NumStr(s)

\* the text one template token yields for variant v (s = 0 outside the group)
TokValue(tok, v, s, body) ==
    IF tok.k = "lit" THEN tok.v
    ELSE IF tok.k = "%INFO/" THEN InfoVal(tok.v, v, body)
    ELSE IF IsLead(tok.v) THEN LeadVal(tok.v, v)
    ELSE IF tok.v = SAMPLE THEN SampleName(s)
    ELSE IF s = 0 THEN InfoVal(tok.v, v, body)
    ELSE FmtVal(tok.v, v, s)

RenderToks(toks, v, s, body) == Concat([i \in 1..Len(toks) |-> TokValue(toks[i], v, s, body)])

RenderVariant(tpl, v, nsamples, body) ==
    RenderToks(TplPre(tpl), v, 0, body)
    \o Concat([s \in 1..nsamples |-> RenderToks(TplGrp(tpl), v, s, body)])
    \o RenderToks(TplPost(tpl), v, 0, body)

\* the header text of a run of template tokens, columns numbered from k + 1
HdrToks(toks, s, k) ==
    Concat([i \in 1..Len(toks) |->
        LET t == toks[i]
            col == k + Cardinality({j \in 1..i : toks[j].k # "lit"})
        IN  IF t.k = "lit" THEN t.v
            ELSE <<"[">> \o NumStr(col) \o <<"]">>
                 \o (IF s = 0 \/ t.v = SAMPLE THEN t.v ELSE SampleName(s) \o <<":">> \o t.v)])

NumFields(toks) == Cardinality({i \in 1..Len(toks) : toks[i].k # "lit"})

GroupHasNewline(tpl) == \E i \in 1..Len(TplGrp(tpl)) : TplGrp(tpl)[i] = NlTok

\* The header line(s) of --print-header.  Engines differ in how they print a
\* group that holds a newline: "perSample" repeats the group for every
\* sample (one header line per sample), "single" prints it for the first
\* sample only (one header line).
HeaderSamples(tpl, nsamples, style) ==
    IF style = "single" /\ GroupHasNewline(tpl) THEN 1 ELSE nsamples

RenderHeader(tpl, nsamples, style) ==
    <<"#", " ">>
    \o HdrToks(TplPre(tpl), 0, 0)
    \o Concat([s \in 1..HeaderSamples(tpl, nsamples, style) |->
                 HdrToks(TplGrp(tpl), s,
                         NumFields(TplPre(tpl)) + (s - 1) * NumFields(TplGrp(tpl)))])
    \o HdrToks(TplPost(tpl), 0, 0)

\* everything the engine writes to its stdout for a command, as lines
EngineOutput(cmd, nsamples, body, style) ==
    Lines((IF cmd.header THEN RenderHeader(cmd.f, nsamples, style) ELSE <<>>)
          \o Concat([v \in 1..Len(body) |-> RenderVariant(cmd.f, v, nsamples, body)]))

\* ---------------------------------------------------------- input values
\* An ANN annotation is a list of sub-records, each a list of fields.
\* one ANN sub-record: 15 fields, the last one (error) empty
AnnRecord(tag) == [i \in 1..15 |-> IF i = 15 THEN <<>> ELSE <<tag>> \o NumStr(i)]

\* the annotations a record may carry: one sub-record, two sub-records, the
\* empty value, and the engine's "." for a missing value
AnnData ==
    << << AnnRecord("a") >>,
       << AnnRecord("a"), AnnRecord("b") >>,
       << << <<>> >> >>,
       << << <<".">> >> >> >>

InfoChoices ==
    { <<>>, << <<"DP">> >>, << ANN >>, << <<"DP">>, ANN, <<"AF">> >>, << ANN, <<"AF">> >> }

FormatNames == [i \in 1..(MaxFormat + 1) |-> <<"F">> \o NumStr(i)]

FormatChoices == {SubSeq(FormatNames, 1, m) : m \in 0..MaxFormat}

\* header lines: well-formed declarations and lines the grammars reject
HeaderLinePool ==
    << InfoDecl(<<"DP">>),
       InfoDecl(ANN),
       FormatDecl(<<"GT">>),
       \* an INFO line with no attribute after the identifier
       <<INFO_PREFIX, "FOO", ">", "\n">>,
       \* an INFO line whose description is not closed
       <<INFO_PREFIX, "AF", ",", "Number=", "A", ",", "Type=", "Float", ",",
         "Description=", "\"", "d", "\n">>,
       \* an INFO line with a Number the INFO grammar does not allow
       <<INFO_PREFIX, "AD", ",", "Number=", "R", ",", "Type=", "Integer", ",",
         "Description=", "\"", "d", "\"", ">", "\n">>,
       \* a FORMAT line with Number=R and a free Type
       <<FORMAT_PREFIX, "AD", ",", "Number=", "R", ",", "Type=", "Foo", ",",
         "Description=", "\"", "d", "\"", ">", "\n">>,
       \* a FORMAT line cut short
       <<FORMAT_PREFIX, "PL", "\n">>,
       \* a line that is neither
       <<"##contig=<ID=1>", "\n">> >>

\* every header of at most MaxHeaderLines lines of the pool
HeaderTexts ==
    {Concat([i \in 1..Len(pick) |-> HeaderLinePool[pick[i]]]) :
        pick \in UNION {[1..k -> 1..Len(HeaderLinePool)] : k \in 0..MaxHeaderLines}}

\* the ANN values of the variants of a file: nv variants, starting at value first
Body(nv, first) ==
    [v \in 1..nv |-> AnnData[((first + v - 2) % Len(AnnData)) + 1]]

\* ------------------------------------------------------ the row transforms
\* ann_loc = info_fields.index("ANN") + 7 when expansion is on and ANN is a field
IndexOf(seq, x) == (CHOOSE i \in 1..Len(seq) : seq[i] = x /\ \A j \in 1..(i - 1) : seq[j] # x) - 1

\* the location taken whenever expansion is requested, ANN declared or not
AnnLocUnchecked(expand, info) == IF expand THEN 7 ELSE None

AnnLoc(expand, info) ==
    IF expand /\ \E i \in 1..Len(info) : info[i] = ANN
    THEN IndexOf(info, ANN) + 7
    ELSE None

\* parts[: ann_loc - 1] + ANN_HEADER + parts[ann_loc + 1 :]
HeaderSplice(parts, loc) == SliceTo(parts, loc - 1) \o ANN_HEADER \o SliceFrom(parts, loc + 1)

\* the wide header line printed for raw line 0
WideHeaderLine(line, loc) ==
    LET spliced == IF loc # None THEN Join(HeaderSplice(Split(line, "\t"), loc), "\t")
                   ELSE line
    IN  ReplaceChar(Strip(SubMarkers(spliced), {"#", "\n", " "}), ":", "_")

\* header[: -len(format_fields)] + [f"F_{x}" for x in header[-len(format_fields) :]]
PrefixFormat(header, ff) ==
    LET tail == SliceFrom(header, 0 - Len(ff))
    IN  SliceTo(header, 0 - Len(ff)) \o [i \in 1..Len(tail) |-> <<"F_">> \o tail[i]]

\* the long header line printed for raw line 0
LongHeaderLine(line, loc, ff) ==
    LET toks == Split(Strip(SubMarkers(line), {"#", "\n", " "}), "\t")
        header == [i \in 1..Len(toks) |->
                     IF Contains(toks[i], ":") THEN Split(toks[i], ":")[2] ELSE toks[i]]
        spliced == IF loc # None THEN HeaderSplice(header, loc) ELSE header
    IN  Remove(Join(PrefixFormat(spliced, ff), "\t"), SENTINEL)

\* line.strip("\n").split("\t")
LongSplit(line) == Split(Strip(line, {"\n"}), "\t")

\* parts of a long data line after the carry-over of the variant's columns
LongParts(line, fill) ==
    LET parts == LongSplit(line)
    IN  IF StartsWith(parts[1], SENTINEL)
        THEN fill \o SliceFrom(parts, Len(parts) - Len(fill))
        ELSE parts

\* fill_fields taken from every long data line, continuation lines included
LongFillAlways(line, fill, info) == Slice(LongSplit(line), 0, 7 + Len(info))

\* fill_fields after a long data line
LongFill(line, fill, info) ==
    LET parts == LongSplit(line)
    IN  IF StartsWith(parts[1], SENTINEL) THEN fill ELSE Slice(parts, 0, 7 + Len(info))

\* parts[ann_loc] raises IndexError
IndexError(parts, loc) == loc >= Len(parts)

\* parts[: ann_loc - 1] + var_effect.split("|") + parts[ann_loc + 2 :]
OutLine(parts, loc, var_effect) ==
    SliceTo(parts, loc - 1) \o Split(var_effect, "|") \o SliceFrom(parts, loc + 2)

\* the fan-out stopping after the first var_effect
AnnRowsFirstOnly(parts, loc) == <<OutLine(parts, loc, Split(parts[loc + 1], ",")[1])>>

\* the out_line of every var_effect of parts[ann_loc].split(","), in order
AnnRows(parts, loc) ==
    LET effects == Split(parts[loc + 1], ",")
    IN  [j \in 1..Len(effects) |-> OutLine(parts, loc, effects[j])]

\* the lines printed for a long data line
LongDataOut(parts, loc) ==
    IF loc # None
    THEN LET rows == AnnRows(parts, loc)
         IN  [j \in 1..Len(rows) |-> Remove(Strip(Join(rows[j], "\t"), {"\n"}), SENTINEL)]
    ELSE <<Remove(Join(parts, "\t"), SENTINEL)>>

\* a wide data line printed with its line ending
WideDataOutRaw(line, loc) == <<line>>

\* the lines printed for a wide data line
WideDataOut(line, loc) ==
    IF loc # None
    THEN LET rows == AnnRows(Split(line, "\t"), loc)
         IN  [j \in 1..Len(rows) |-> Strip(Join(rows[j], "\t"), {"\n"})]
    ELSE <<Strip(line, {"\n"})>>

\* ------------------------------------------------------------------ state
VARIABLES
    pc,             \* where the run is: start, open, spawn, loop, done, exited, crashed
    vcf_path,       \* the positional argument
    isfile,         \* os.path.isfile(vcf_path)
    output_format,  \* "wide" or "long"
    print_header,
    expand_ann,
    raw_header,     \* vcf.raw_header: the metadata header of the file
    info_fields,
    format_fields,
    samples,        \* vcf.samples
    variants,       \* the records of the file: the ANN annotation of each
    proc,           \* the engine child: started, header style, returncode, stderr text
    raw,            \* the lines of proc.stdout
    ann_loc,
    fill_fields,
    n,              \* lines of raw consumed so far
    stdout,         \* the lines printed
    origin,         \* for each printed line, the index n of the raw line it came from
    stderr,         \* what the run itself wrote to standard error
    exit_code,
    engine,         \* the child process: alive, what it has left to write, its next call
    err_pipe        \* chunks in the pipe of proc.stderr, which nothing reads

vars == <<pc, vcf_path, isfile, output_format, print_header, expand_ann, raw_header, info_fields,
          format_fields, samples, variants, proc, raw, ann_loc, fill_fields, n,
          stdout, origin, stderr, exit_code, engine, err_pipe>>

args == <<vcf_path, isfile, output_format, print_header, expand_ann>>

schema == <<raw_header, info_fields, format_fields, samples, variants>>

pipes == <<engine, err_pipe>>

\* no child, or a child that has exited
NoEngine == [alive |-> FALSE, out |-> <<>>, err |-> 0, next |-> "exit"]

NoProc == [started |-> FALSE, style |-> "perSample", returncode |-> None, stderr |-> <<>>]

Init ==
    /\ pc = "start"
    /\ vcf_path \in {"in.vcf", "-"}
    /\ isfile \in BOOLEAN
    /\ output_format \in {"wide", "long"}
    /\ print_header \in BOOLEAN
    /\ expand_ann \in BOOLEAN
    /\ \E info \in InfoChoices, ff \in FormatChoices : raw_header = HeaderText(info, ff)
    /\ info_fields = <<>>
    /\ format_fields = <<>>
    /\ samples = <<>>
    /\ variants = <<>>
    /\ proc = NoProc
    /\ raw = <<>>
    /\ ann_loc = None
    /\ fill_fields = <<>>
    /\ n = 0
    /\ stdout = <<>>
    /\ origin = <<>>
    /\ stderr = <<>>
    /\ exit_code = None
    /\ engine = NoEngine
    /\ err_pipe = 0

\* the check without the stdin sentinel
PathRejectedNoStdin(path, exists) == ~exists

\* if not os.path.isfile(vcf_path) and vcf_path != "-"
PathRejected(path, exists) == ~exists /\ path # "-"

CheckPath ==
    /\ pc = "start"
    /\ IF PathRejected(vcf_path, isfile)
       THEN /\ stderr' = Append(stderr, <<"Error: ", vcf_path, " does not exist">>)
            /\ exit_code' = 1
            /\ pc' = "exited"
       ELSE /\ pc' = "open"
            /\ UNCHANGED <<stderr, exit_code>>
    /\ UNCHANGED <<args, schema, pipes, proc, raw, ann_loc, fill_fields, n, stdout, origin>>

\* vcf = VCF(vcf_path); raw_header, samples; info_fields, format_fields
OpenVcf ==
    /\ pc = "open"
    /\ info_fields' = InfoIds(raw_header)
    /\ format_fields' = FormatIds(raw_header)
    /\ \E ns \in 1..MaxSamples : samples' = [s \in 1..ns |-> SampleName(s)]
    /\ \E nv \in 1..MaxVariants, first \in 1..Len(AnnData) :
          /\ ((\A i \in 1..Len(info_fields') : info_fields'[i] # ANN) => first = 1)
          /\ variants' = Body(nv, first)
    /\ pc' = "spawn"
    /\ UNCHANGED <<args, raw_header, pipes, proc, raw, ann_loc, fill_fields, n, stdout, origin,
                   stderr, exit_code>>

\* proc = Popen(cmd, stdout=PIPE, stderr=PIPE); ann_loc; fill_fields = []
\* The child is taken to have run to its end, with what it wrote to its
\* stderr held by the pipe.
Spawn ==
    /\ pc = "spawn"
    /\ LET cmd == Command(print_header, output_format, info_fields, format_fields, vcf_path)
           full(style) == EngineOutput(cmd, Len(samples), variants, style)
       IN  \/ \* the engine cannot be started: Popen raises
              /\ pc' = "crashed"
              /\ stderr' = Append(stderr, <<"Traceback: FileNotFoundError: bcftools">>)
              /\ exit_code' = 1
              /\ err_pipe' = 0
              /\ UNCHANGED <<proc, raw, ann_loc>>
           \/ \* the engine runs and exits with status 0
              \E style \in (IF print_header /\ output_format = "long"
                            THEN {"perSample", "single"} ELSE {"perSample"}) :
                 /\ proc' = [started |-> TRUE, style |-> style, returncode |-> 0,
                             stderr |-> <<>>]
                 /\ raw' = full(style)
                 /\ err_pipe' = 0
                 /\ ann_loc' = AnnLoc(expand_ann, info_fields)
                 /\ pc' = "loop"
                 /\ UNCHANGED <<stderr, exit_code>>
           \/ \* the engine fails: a diagnostic on its stderr, a non-zero status,
              \* after none or all of its output
              \E out \in {<<>>, full("perSample")} :
                 /\ proc' = [started |-> TRUE, style |-> "perSample", returncode |-> 1,
                             stderr |-> <<"bcftools: error">>]
                 /\ raw' = out
                 /\ err_pipe' = 1
                 /\ ann_loc' = AnnLoc(expand_ann, info_fields)
                 /\ pc' = "loop"
                 /\ UNCHANGED <<stderr, exit_code>>
    /\ fill_fields' = <<>>
    /\ engine' = NoEngine
    /\ UNCHANGED <<args, schema, n, stdout, origin>>

\* print(text) for every text of texts, all from raw line n
Emit(texts) ==
    /\ stdout' = stdout \o texts
    /\ origin' = origin \o [i \in 1..Len(texts) |-> n]

\* the unhandled IndexError of a data line
Raise ==
    /\ pc' = "crashed"
    /\ stderr' = Append(stderr, <<"Traceback: IndexError">>)
    /\ exit_code' = 1
    /\ UNCHANGED <<stdout, origin, n>>

Line == raw[n + 1]

\* n == 0 and print_header and output_format == wide
WideHeader ==
    /\ pc = "loop" /\ n < Len(raw)
    /\ n = 0 /\ print_header /\ output_format = "wide"
    /\ Emit(<<WideHeaderLine(Line, ann_loc)>>)
    /\ n' = n + 1
    /\ UNCHANGED <<pc, args, schema, pipes, proc, raw, ann_loc, fill_fields, stderr,
                   exit_code>>

\* n == 0 and print_header and output_format == long
LongHeader ==
    /\ pc = "loop" /\ n < Len(raw)
    /\ n = 0 /\ print_header /\ output_format = "long"
    /\ Emit(<<LongHeaderLine(Line, ann_loc, format_fields)>>)
    /\ n' = n + 1
    /\ UNCHANGED <<pc, args, schema, pipes, proc, raw, ann_loc, fill_fields, stderr,
                   exit_code>>

\* n < len(samples) and output_format == long: pass
SkipLine ==
    /\ pc = "loop" /\ n < Len(raw)
    /\ ~(n = 0 /\ print_header)
    /\ n < Len(samples) /\ output_format = "long"
    /\ n' = n + 1
    /\ UNCHANGED <<pc, args, schema, pipes, proc, raw, ann_loc, fill_fields, stdout,
                   origin, stderr, exit_code>>

\* n >= len(samples) and output_format == long
LongData ==
    /\ pc = "loop" /\ n < Len(raw)
    /\ ~(n = 0 /\ print_header)
    /\ n >= Len(samples) /\ output_format = "long"
    /\ fill_fields' = LongFill(Line, fill_fields, info_fields)
    /\ LET parts == LongParts(Line, fill_fields)
       IN  IF ann_loc # None /\ IndexError(parts, ann_loc)
           THEN Raise
           ELSE /\ Emit(LongDataOut(parts, ann_loc))
                /\ n' = n + 1
                /\ UNCHANGED <<pc, stderr, exit_code>>
    /\ UNCHANGED <<args, schema, pipes, proc, raw, ann_loc>>

\* else: wide data lines
WideData ==
    /\ pc = "loop" /\ n < Len(raw)
    /\ ~(n = 0 /\ print_header)
    /\ output_format = "wide"
    /\ IF ann_loc # None /\ IndexError(Split(Line, "\t"), ann_loc)
       THEN Raise
       ELSE /\ Emit(WideDataOut(Line, ann_loc))
            /\ n' = n + 1
            /\ UNCHANGED <<pc, stderr, exit_code>>
    /\ UNCHANGED <<args, schema, pipes, proc, raw, ann_loc, fill_fields>>

\* proc.stdout is exhausted: the function returns and the program exits
EndOfStream ==
    /\ pc = "loop" /\ n = Len(raw) /\ ~engine.alive
    /\ pc' = "done"
    /\ exit_code' = 0
    /\ UNCHANGED <<args, schema, pipes, proc, raw, ann_loc, fill_fields, n, stdout, origin,
                   stderr>>

Next ==
    \/ CheckPath
    \/ OpenVcf
    \/ Spawn
    \/ WideHeader
    \/ LongHeader
    \/ SkipLine
    \/ LongData
    \/ WideData
    \/ EndOfStream

Spec == Init /\ [][Next]_vars

\* ---------------------------------------------- the child runs alongside
\* Popen returns at once.  The child then writes its lines to the pipe of
\* its stdout and its diagnostics to the pipe of its stderr, one call after
\* the other in an order of its own, and exits.  A pipe holds PipeCapacity
\* chunks; a write to a full pipe blocks until a reader has made room.  The
\* loop reads proc.stdout only: raw holds the lines written so far, the
\* lines n+1.. of it are still in the pipe.
MaxErrChunks == PipeCapacity + 1

\* the calls a child with o lines and e diagnostics left may make next
NextCalls(o, e) ==
    (IF o > 0 THEN {"out"} ELSE {}) \cup (IF e > 0 THEN {"err"} ELSE {})
    \cup (IF o = 0 /\ e = 0 THEN {"exit"} ELSE {})

Popen ==
    /\ pc = "spawn"
    /\ LET cmd == Command(print_header, output_format, info_fields, format_fields, vcf_path)
           out == EngineOutput(cmd, Len(samples), variants, "perSample")
       IN  \E e \in 0..MaxErrChunks : \E c \in NextCalls(Len(out), e) :
              engine' = [alive |-> TRUE, out |-> out, err |-> e, next |-> c]
    /\ proc' = [started |-> TRUE, style |-> "perSample", returncode |-> None, stderr |-> <<>>]
    /\ raw' = <<>>
    /\ err_pipe' = 0
    /\ ann_loc' = AnnLoc(expand_ann, info_fields)
    /\ fill_fields' = <<>>
    /\ pc' = "loop"
    /\ UNCHANGED <<args, schema, n, stdout, origin, stderr, exit_code>>

\* the child writes its next line; the pipe of stdout has room
EngineWriteStdout ==
    /\ pc = "loop" /\ engine.alive /\ engine.next = "out"
    /\ Len(raw) - n < PipeCapacity
    /\ raw' = Append(raw, Head(engine.out))
    /\ \E c \in NextCalls(Len(engine.out) - 1, engine.err) :
          engine' = [engine EXCEPT !.out = Tail(engine.out), !.next = c]
    /\ UNCHANGED <<pc, args, schema, proc, err_pipe, ann_loc, fill_fields, n, stdout,
                   origin, stderr, exit_code>>

\* the child writes a diagnostic; the pipe of stderr has room
EngineWriteStderr ==
    /\ pc = "loop" /\ engine.alive /\ engine.next = "err"
    /\ err_pipe < PipeCapacity
    /\ err_pipe' = err_pipe + 1
    /\ \E c \in NextCalls(Len(engine.out), engine.err - 1) :
          engine' = [engine EXCEPT !.err = engine.err - 1, !.next = c]
    /\ UNCHANGED <<pc, args, schema, proc, raw, ann_loc, fill_fields, n, stdout, origin,
                   stderr, exit_code>>

\* the child exits: its ends of the pipes are closed
EngineExit ==
    /\ pc = "loop" /\ engine.alive /\ engine.next = "exit"
    /\ engine' = NoEngine
    /\ \E rc \in {0, 1} : proc' = [proc EXCEPT !.returncode = rc]
    /\ UNCHANGED <<pc, args, schema, raw, err_pipe, ann_loc, fill_fields, n, stdout,
                   origin, stderr, exit_code>>

Transformer ==
    \/ CheckPath
    \/ OpenVcf
    \/ Popen
    \/ WideHeader
    \/ LongHeader
    \/ SkipLine
    \/ LongData
    \/ WideData
    \/ EndOfStream

EngineStep ==
    \/ EngineWriteStdout
    \/ EngineWriteStderr
    \/ EngineExit

InitPipes ==
    /\ Init
    /\ vcf_path = "in.vcf" /\ isfile /\ ~expand_ann
    /\ raw_header = HeaderText(<< <<"DP">> >>, << FormatNames[1] >>)

NextPipes == Transformer \/ EngineStep

\* ENABLED <<Transformer>>_vars: the run has a statement to execute, which
\* in the loop means a line to read or the end of the stream
TransformerCanRun ==
    \/ pc \in {"start", "open", "spawn"}
    \/ pc = "loop" /\ (n < Len(raw) \/ ~engine.alive)

\* Both processes are scheduled whenever they can run: weak fairness of the
\* child's steps and of the transformer's, the latter written out with its
\* enabling condition.
SpecPipes ==
    /\ InitPipes /\ [][NextPipes]_vars
    /\ ([]<>~TransformerCanRun \/ []<><<Transformer>>_vars)
    /\ WF_vars(EngineStep)

\* the header schema extractor on its own: any header text, then lines 91-98
InitHeader ==
    /\ pc = "open"
    /\ vcf_path = "in.vcf"
    /\ isfile = TRUE
    /\ output_format = "wide"
    /\ print_header = FALSE
    /\ expand_ann = FALSE
    /\ raw_header \in HeaderTexts
    /\ info_fields = <<>>
    /\ format_fields = <<>>
    /\ samples = <<>>
    /\ variants = <<>>
    /\ proc = NoProc
    /\ raw = <<>>
    /\ ann_loc = None
    /\ fill_fields = <<>>
    /\ n = 0
    /\ stdout = <<>>
    /\ origin = <<>>
    /\ stderr = <<>>
    /\ exit_code = None
    /\ engine = NoEngine
    /\ err_pipe = 0

NextHeader == OpenVcf

SpecHeader == InitHeader /\ [][NextHeader]_vars

\* ============================================================ properties
\* --------------------------------------------- reading the engine stream
Tokens(text) == Split(text, "\t")

IsPrefix(p, s) == Len(p) <= Len(s) /\ SubSeq(s, 1, Len(p)) = p

IsSuffix(p, s) == Len(p) <= Len(s) /\ SubSeq(s, Len(s) - Len(p) + 1, Len(s)) = p

\* the number of header lines at the head of raw
HdrLines ==
    IF ~print_header THEN 0
    ELSE IF output_format = "long" /\ proc.style = "perSample" THEN Len(samples)
    ELSE 1

\* raw line o (counted from 0, as n is) carries data of a variant
IsData(o) == o >= HdrLines

\* the index in raw of the line of variant v, sample s, in long format
DataLine(v, s) == HdrLines + (v - 1) * Len(samples) + (s - 1)

VariantOf(o) ==
    IF output_format = "long" THEN ((o - HdrLines) \div Len(samples)) + 1
    ELSE o - HdrLines + 1

\* the first per-sample line of the variant raw line o belongs to
FirstLineOf(o) ==
    IF output_format = "long" THEN o - ((o - HdrLines) % Len(samples)) ELSE o

RawTokens(o) == Tokens(Strip(raw[o + 1], {"\n"}))

IsContinuation(o) == StartsWith(raw[o + 1], SENTINEL)

NoSentinel(toks) ==
    [j \in 1..Len(toks) |->
        IF StartsWith(toks[j], SENTINEL) THEN SubSeq(toks[j], Len(SENTINEL) + 1, Len(toks[j]))
        ELSE toks[j]]

\* the leading columns (fixed and info) of the variant of raw line o
LeadingOf(o) == SubSeq(RawTokens(FirstLineOf(o)), 1, 7 + Len(info_fields))

\* the full row raw line o stands for: its own tokens, after the variant's
\* leading columns when it is a continuation line; the sentinel is not data
FullRow(o) ==
    NoSentinel(IF IsContinuation(o) THEN LeadingOf(o) \o RawTokens(o) ELSE RawTokens(o))

\* raw line o was consumed by a data branch of the loop
ProcessedAsData(o) ==
    /\ o < n
    /\ IsData(o)
    /\ (output_format = "long" => o >= Len(samples))

RowsOf(o) == {i \in 1..Len(stdout) : origin[i] = o}

EngineComplete == proc.started /\ proc.returncode = 0

\* ------------------------------------------------------------------- C1
\* C1: in long format without ANN expansion, a finished run over a complete
\* engine stream has printed exactly one row for every (variant, sample)
\* pair, with or without the header.
C1_OneRowPerPair ==
    (pc = "done" /\ EngineComplete /\ output_format = "long" /\ ~expand_ann) =>
        \A v \in 1..Len(variants), s \in 1..Len(samples) :
            Cardinality(RowsOf(DataLine(v, s))) = 1

\* ------------------------------------------------------------------- C2
\* C2: with ANN expansion active, every printed data row is the full row of
\* its raw line with the ANN token replaced in place by the fields of one of
\* its sub-records: every other column is kept, in order.
C2_NonAnnColumnsKept ==
    \A i \in 1..Len(stdout) :
        (ann_loc # None /\ IsData(origin[i])) =>
            LET row == FullRow(origin[i])
                a == variants[VariantOf(origin[i])]
            IN  \E j \in 1..Len(a) :
                    Tokens(stdout[i]) =
                        SubSeq(row, 1, ann_loc) \o a[j] \o SubSeq(row, ann_loc + 2, Len(row))

\* ------------------------------------------------------------------- C3
\* C3: in long format (no ANN expansion), every row printed for a
\* continuation line begins with the 7 + len(info_fields) leading tokens of
\* the first per-sample line of the same variant.
C3_ContinuationPrefix ==
    \A i \in 1..Len(stdout) :
        (output_format = "long" /\ ann_loc = None /\ IsData(origin[i])
            /\ IsContinuation(origin[i])) =>
            IsPrefix(LeadingOf(origin[i]), Tokens(stdout[i]))

\* ------------------------------------------------------------------- C4
\* C4: in long format (no ANN expansion), the row printed for a continuation
\* line ends with all the tokens of that line, the sample name and every
\* FORMAT value: no token of the sample block is dropped.  Stated for the
\* continuation lines whose variant had its first line processed, so that
\* fill_fields holds that variant's leading columns.
C4_AllSampleTokensKept ==
    \A i \in 1..Len(stdout) :
        (output_format = "long" /\ ann_loc = None /\ IsData(origin[i])
            /\ IsContinuation(origin[i]) /\ ProcessedAsData(FirstLineOf(origin[i]))) =>
            IsSuffix(NoSentinel(RawTokens(origin[i])), Tokens(stdout[i]))

\* ------------------------------------------------------------------- C5
\* C5: in a wide run with header, the header line has as many columns as
\* every data row (without ANN expansion, or with it for rows whose ANN
\* sub-records have 15 fields).
FifteenFields(a) == \A j \in 1..Len(a) : Len(a[j]) = 15

C5_HeaderWidthIsRowWidth ==
    \A i \in 1..Len(stdout) :
        (output_format = "wide" /\ print_header /\ IsData(origin[i])
            /\ (ann_loc = None \/ FifteenFields(variants[VariantOf(origin[i])]))) =>
            Len(Tokens(stdout[i])) = Len(Tokens(stdout[1]))

\* ------------------------------------------------------------------- C6
\* C6: with ANN expansion active, a data row whose ANN token is the empty
\* string yields exactly one printed row, and that row holds 15 empty ANN
\* columns.
FifteenEmpty(toks) ==
    \E p \in 1..(Len(toks) - 14) : \A j \in p..(p + 14) : toks[j] = <<>>

C6_EmptyAnnFifteenColumns ==
    \A o \in 0..(n - 1) :
        (ann_loc # None /\ ProcessedAsData(o)
            /\ AnnText(variants[VariantOf(o)]) = <<>>) =>
            /\ Cardinality(RowsOf(o)) = 1
            /\ \A i \in RowsOf(o) : FifteenEmpty(Tokens(stdout[i]))

\* ------------------------------------------------------------------- C7
\* C7: with ANN expansion active, a data row whose ANN token holds k
\* sub-records yields exactly k printed rows, consecutive and in sub-record
\* order, before any row of the next raw line; the rows differ only in the
\* ANN sub-field columns.
\* x is y with the run of fields fy replaced in place by fx
SameButAnn(x, fx, y, fy) ==
    \E p \in 0..Len(y) :
        /\ p + Len(fy) <= Len(y)
        /\ SubSeq(y, p + 1, p + Len(fy)) = fy
        /\ x = SubSeq(y, 1, p) \o fx \o SubSeq(y, p + Len(fy) + 1, Len(y))

C7_FanOut ==
    /\ \A i, j \in 1..Len(origin) : i < j => origin[i] <= origin[j]
    /\ \A o \in 0..(n - 1) :
          (ann_loc # None /\ ProcessedAsData(o)) =>
              LET a == variants[VariantOf(o)]
                  rows == RowsOf(o)
                  first == CHOOSE i \in rows : \A j \in rows : i <= j
              IN  /\ Cardinality(rows) = Len(a)
                  /\ \A r \in 1..Len(a) :
                        SameButAnn(Tokens(stdout[first + r - 1]), a[r],
                                   Tokens(stdout[first]), a[1])

C7_Witness ==
    /\ pc = "done" /\ ann_loc # None
    /\ \E o \in 0..(n - 1) :
          /\ ProcessedAsData(o)
          /\ Len(variants[VariantOf(o)]) = 2
          /\ Cardinality(RowsOf(o)) = 2

\* ------------------------------------------------------------------- C8
\* C8: when the engine fails (it cannot be started, or it exits with a
\* non-zero status), the run does not end as a success: its exit status is
\* not 0 and the engine's diagnostic is on the run's standard error.
EngineFailed == ~proc.started \/ proc.returncode # 0

DiagnosticSurfaced ==
    IF proc.started THEN \E i \in 1..Len(stderr) : stderr[i] = proc.stderr
    ELSE stderr # <<>>

C8_EngineFailureIsFatal ==
    (pc \in {"done", "crashed"} /\ EngineFailed) =>
        (pc # "done" /\ exit_code # 0 /\ DiagnosticSurfaced)

\* ------------------------------------------------------------------- C9
\* C9: a path that names no file and is not "-" ends the run with exit code
\* 1 before the header is read, the engine is started or anything is
\* printed; the path "-" is never rejected.
C9_MissingFileFailsFast ==
    /\ (~isfile /\ vcf_path # "-") =>
          /\ pc \in {"start", "exited"}
          /\ (pc = "exited" => exit_code = 1)
          /\ samples = <<>> /\ ~proc.started /\ stdout = <<>>
    /\ (vcf_path = "-" => pc # "exited")

C9_Witness ==
    pc = "exited" /\ ~isfile /\ vcf_path # "-" /\ exit_code = 1 /\ stdout = <<>>

\* ------------------------------------------------------------------ C10
\* C10: in the long header exactly the trailing len(format_fields) columns
\* carry the F_ prefix, for every number of format fields, zero included.
HasFPrefix(tok) == tok # <<>> /\ tok[1] = "F_"

C10_OnlyFormatColumnsPrefixed ==
    (output_format = "long" /\ print_header /\ n >= 1) =>
        LET header == Tokens(stdout[1])
        IN  \A j \in 1..Len(header) :
                HasFPrefix(header[j]) <=> j > Len(header) - Len(format_fields)

\* ------------------------------------------------------------------ C11
\* C11: for every header text, info_fields and format_fields are the
\* identifiers of the header lines that match the INFO and the FORMAT
\* grammar, one entry per such line, in line order, repeated identifiers
\* kept; a line that matches neither grammar changes nothing.
\* the identifiers of the lines of h that match on their own
DeclaredIds(re, h) ==
    LET wf == SelectSeq(Lines(h), LAMBDA l : Match(re, l, 1).ok)
    IN  [i \in 1..Len(wf) |-> Match(re, wf[i], 1).id]

C11_SchemaIsWellFormedDeclarations ==
    (pc = "spawn") =>
        /\ info_fields = DeclaredIds("RE_INFO", raw_header)
        /\ format_fields = DeclaredIds("RE_FORMAT", raw_header)

\* ------------------------------------------------------------------ C12
\* C12: in wide format without ANN expansion every consumed raw line has
\* printed exactly one line, in raw order; a data line is printed unchanged
\* but for its trailing newline; raw line 0 is printed as data when the
\* header was not requested, and as the header (the column names, not the
\* raw text) when it was.
DropNewline(s) ==
    IF s # <<>> /\ s[Len(s)] = "\n" THEN SubSeq(s, 1, Len(s) - 1) ELSE s

C12_WidePassThrough ==
    (output_format = "wide" /\ ann_loc = None /\ pc \in {"loop", "done"}) =>
        /\ Len(stdout) = n
        /\ \A o \in 0..(n - 1) :
              /\ origin[o + 1] = o
              /\ IF o = 0 /\ print_header
                 THEN /\ stdout[1] # DropNewline(raw[1])
                      /\ IsPrefix(LEAD_NAMES, Tokens(stdout[1]))
                 ELSE stdout[o + 1] = DropNewline(raw[o + 1])

C12_Witness ==
    /\ pc = "done" /\ output_format = "wide" /\ ann_loc = None /\ print_header
    /\ Len(stdout) >= 3
    /\ stdout[2] = DropNewline(raw[2])
    /\ stdout[3] = DropNewline(raw[3])

\* ------------------------------------------------------------------ C13
\* C13: with the header requested and ANN expansion active, the printed
\* header and every printed data row (of a variant whose ANN sub-records
\* have 15 fields) are the raw column names and the raw row with the same
\* run of raw columns replaced, by the 15 ANN names and by the 15 ANN
\* values: every column name stands over the value of its own column.
\* (Long headers of a file without FORMAT fields are left to C10.)
\* the names of the raw columns: the header line rendered without a splice
ColumnNames ==
    IF output_format = "wide" THEN Tokens(WideHeaderLine(raw[1], None))
    ELSE Tokens(LongHeaderLine(raw[1], None, format_fields))

\* x is y with the columns a+1..b replaced by mid
ReplacesColumns(x, y, a, b, mid) ==
    x = SubSeq(y, 1, a) \o mid \o SubSeq(y, b + 1, Len(y))

C13_HeaderAlignsWithRows ==
    \A i \in 1..Len(stdout) :
        (print_header /\ ann_loc # None /\ IsData(origin[i])
            /\ (output_format = "long" => format_fields # <<>>)
            /\ ProcessedAsData(FirstLineOf(origin[i]))
            /\ FifteenFields(variants[VariantOf(origin[i])])) =>
            LET row == FullRow(origin[i])
                ann == variants[VariantOf(origin[i])]
            IN  \E a, b \in 0..Len(row) :
                    /\ a <= b
                    /\ ReplacesColumns(Tokens(stdout[1]), ColumnNames, a, b, ANN_HEADER)
                    /\ \E j \in 1..Len(ann) :
                          ReplacesColumns(Tokens(stdout[i]), row, a, b, ann[j])

\* ------------------------------------------------------------------ C14
\* C14: a raw data line that lacks a column the loop needs is never passed:
\* the run stops at it with a fatal error, so no consumed line is one, and
\* no row was printed for one.  Such a line is one with no token at index
\* ann_loc while ANN expansion is active, or a long continuation line
\* reached before any line of a fresh variant has set fill_fields.
\* raw line o is handled by a data branch of the loop
HandledAsData(o) ==
    /\ ~(o = 0 /\ print_header)
    /\ (output_format = "long" => o >= Len(samples))

NoPrefixBefore(o) ==
    \A o2 \in 0..(o - 1) : HandledAsData(o2) => IsContinuation(o2)

LacksColumn(o) ==
    \/ /\ ann_loc # None
       /\ ~(output_format = "long" /\ IsContinuation(o))
       /\ Len(RawTokens(o)) <= ann_loc
    \/ /\ output_format = "long"
       /\ IsContinuation(o)
       /\ NoPrefixBefore(o)

C14_MissingColumnIsFatal ==
    (pc \in {"loop", "done", "crashed"}) =>
        /\ \A o \in 0..(n - 1) : ~(HandledAsData(o) /\ LacksColumn(o))
        /\ \A i \in 1..Len(stdout) : ~(HandledAsData(origin[i]) /\ LacksColumn(origin[i]))
        /\ (n < Len(raw) /\ HandledAsData(n) /\ LacksColumn(n)) => pc # "done"

\* ------------------------------------------------------------------ C15
\* C15: whatever the child writes to its stdout and its stderr, in whatever
\* order, the run terminates: the loop reaches the end of the stream (or
\* the run ends with an error).
C15_RunTerminates == <>(pc \in {"done", "crashed", "exited"})

\* ------------------------------------------------------------------ C16
\* C16: when ANN expansion is requested and "ANN" is not an INFO field,
\* ann_loc stays unset, no line raises, and what has been printed is, line
\* for line, what the loop prints for the same raw lines, format and header
\* setting when expansion is not requested; runs without the request print
\* exactly that.
\* the loop of lines 131-183 over the first k raw lines with ann_loc = loc:
\* the lines printed and fill_fields
RECURSIVE LoopRun(_, _)
LoopRun(k, loc) ==
    IF k = 0 THEN [out |-> <<>>, fill |-> <<>>]
    ELSE LET prev == LoopRun(k - 1, loc)
             line == raw[k]
         IN  IF k = 1 /\ print_header
             THEN [prev EXCEPT !.out = prev.out \o
                      <<IF output_format = "wide" THEN WideHeaderLine(line, loc)
                        ELSE LongHeaderLine(line, loc, format_fields)>>]
             ELSE IF output_format = "long"
             THEN IF k - 1 < Len(samples) THEN prev
                  ELSE [out |-> prev.out \o LongDataOut(LongParts(line, prev.fill), loc),
                        fill |-> LongFill(line, prev.fill, info_fields)]
             ELSE [prev EXCEPT !.out = prev.out \o WideDataOut(line, loc)]

AnnDeclared == \E i \in 1..Len(info_fields) : info_fields[i] = ANN

C16_AbsentAnnDisablesExpansion ==
    (proc.started /\ ~AnnDeclared) =>
        /\ ann_loc = None
        /\ pc # "crashed"
        /\ stdout = LoopRun(n, AnnLoc(FALSE, info_fields)).out

C16_Witness ==
    /\ pc = "done" /\ expand_ann /\ ~AnnDeclared /\ info_fields # <<>>
    /\ print_header /\ Len(stdout) >= 3

\* ------------------------------------------------------------------ C17
\* C17: in the template of either format the tab-separated column 7 + i
\* (counted from 0) is the i-th INFO field, in info_fields order, right
\* after the seven leading columns, and the FORMAT fields follow the sample
\* column in format_fields order; and whenever a data line is about to be
\* handled with ANN expansion active, the row the loop works on (the split
\* line in wide format, the reconstructed row in long format) holds the
\* variant's ANN value at index ann_loc.
\* the field names referred to in each tab-separated column of a template
TemplateColumns(tpl) ==
    LET cols == Split(tpl, TabTok)
    IN  [c \in 1..Len(cols) |->
            LET refs == SelectSeq(cols[c], LAMBDA t : t.k \in {"%", "%INFO/"})
            IN  [j \in 1..Len(refs) |-> refs[j].v]]

SampleColumn(cols) == CHOOSE c \in 1..Len(cols) : cols[c] = <<SAMPLE>>

C17_TemplatePositions ==
    LET cols == TemplateColumns(QueryString(output_format, info_fields, format_fields))
    IN  /\ \A c \in 1..7 : cols[c] = <<LEAD_NAMES[c]>>
        /\ \A i \in 1..Len(info_fields) : cols[7 + i] = <<info_fields[i]>>
        /\ \E c \in 1..Len(cols) : cols[c] = <<SAMPLE>>
        /\ SampleColumn(cols) > 7 + Len(info_fields)
        /\ \A j \in 1..Len(format_fields) :
              cols[SampleColumn(cols) + j] = <<format_fields[j]>>

\* the row the data branch works on for the line about to be read
WorkingRow ==
    IF output_format = "long" THEN LongParts(Line, fill_fields) ELSE Split(Line, "\t")

C17_AnnValueAtAnnLoc ==
    (pc = "loop" /\ n < Len(raw) /\ HandledAsData(n) /\ IsData(n) /\ ann_loc # None) =>
        /\ Len(WorkingRow) > ann_loc
        /\ WorkingRow[ann_loc + 1] = AnnText(variants[VariantOf(n)])

C17_AnnLocIsAnnColumn ==
    (pc \in {"spawn", "loop", "done", "crashed"}) =>
        /\ C17_TemplatePositions
        /\ (ann_loc # None => ann_loc = IndexOf(info_fields, ANN) + 7)
        /\ C17_AnnValueAtAnnLoc

\* ------------------------------------------------------------------ C18
\* C18: no line printed in long format, header or data row, with or without
\* ANN expansion, contains the text "-->", whatever the raw tokens hold.
HasSentinel(text) == \E p \in 1..Len(text) : OccursAt(text, SENTINEL, p)

C18_NoSentinelInLongOutput ==
    (output_format = "long") => \A i \in 1..Len(stdout) : ~HasSentinel(stdout[i])

\* ------------------------------------------------------------------ C19
\* C19: during the stream info_fields, format_fields and ann_loc never
\* change; fill_fields changes only in a step that handles a long data line
\* (n >= len(samples), not the header) whose first token does not start
\* with the sentinel, and every such step leaves it equal to the leading
\* 7 + len(info_fields) tokens of that line.  Header lines, skipped lines,
\* continuation lines, the ANN fan-out and wide lines leave it as it was.
FreshLongLine ==
    /\ pc = "loop" /\ n < Len(raw)
    /\ output_format = "long"
    /\ HandledAsData(n)
    /\ ~StartsWith(RawTokens(n)[1], SENTINEL)

LeadingTokens(toks, k) == SubSeq(toks, 1, IF k < Len(toks) THEN k ELSE Len(toks))

C19_FillFieldsFrame ==
    [][/\ (pc = "loop" =>
              /\ info_fields' = info_fields
              /\ format_fields' = format_fields
              /\ ann_loc' = ann_loc)
       /\ (fill_fields' # fill_fields => FreshLongLine)
       /\ (FreshLongLine =>
              fill_fields' = LeadingTokens(RawTokens(n), 7 + Len(info_fields)))]_vars

C19_Witness ==
    /\ pc = "done" /\ output_format = "long" /\ ann_loc # None
    /\ Len(samples) = 2 /\ Len(variants) = 2
    /\ fill_fields # <<>>
    /\ fill_fields = LeadingOf(n - 1)
    /\ Len(stdout) >= 3

====
